---- MODULE Spec2Model ----
(***************************************************************************)
(* Support-ticket backend: ticket store, status workflow, SLA deadlines,   *)
(* audit history, and the Celery SLA sweep / escalation jobs.              *)
(*                                                                         *)
(* Time is counted in minutes.  datetime.utcnow() reads the variable now.  *)
(* Python None is -1 for ids and datetimes and "None" for strings.         *)
(***************************************************************************)
EXTENDS Integers, Sequences, FiniteSets, Bags, TLC

Hour == 60
Day == 24 * Hour
None == -1
NoneStr == "None"

(***************************************************************************)
(* Bounds of the model.                                                    *)
(***************************************************************************)
MaxTickets == 1
MaxHistory == 3
MaxQueue == 2
MaxTicks == 2
MaxTicketsFlow == 1
MaxHistoryFlow == 5
MaxTicksFlow == 2
MaxTicketsLife == 1
MaxHistoryLife == 5
MaxTicksLife == 4
MaxTicketsSla == 1
MaxHistorySla == 3
MaxQueueSla == 2
MaxTicksSla == 1
MaxTicketsWarn == 1
MaxHistoryWarn == 3
MaxQueueWarn == 2
MaxTicksWarn == 3
MaxTicketsEsc == 1
MaxHistoryEsc == 3
MaxQueueEsc == 2
MaxTicksEsc == 1
MaxPosts == 2
MaxUsers == 5
MaxPostsPub == 1
MaxReadsPub == 2
MaxTicksPub == 2
MaxTicketsList == 3
MaxHistoryList == 5
MaxTicketsNum == 3
MaxTicksNum == 2
MaxTicketsConc == 2
MaxHistoryConc == 3
MaxTicksConc == 2
MaxTicketsLate == 1
MaxHistoryLate == 4
MaxQueueLate == 2
MaxTicksLate == 1
MaxTicketsRace == 1
MaxQueueRace == 2
MaxTicksRace == 1
MaxTicketsTurn == 1
MaxHistoryTurn == 4
MaxTicksTurn == 2
\* the clock advances by seven and a half days
TickSteps == {(15 * Day) \div 2}
TickStepsConc == {1}
\* the clock advances by half the resolution time of an urgent ticket less
\* five minutes
TickStepsWarn == {(24 * Hour - 10) \div 2}

(***************************************************************************)
(* Users: two customers, an agent and an admin, as the fixtures test_user,  *)
(* agent_user and admin_user of tests/conftest.py build them.              *)
(***************************************************************************)
UserRole == [CUSTOMER |-> "customer", AGENT |-> "agent", ADMIN |-> "admin"]

User == [i \in 1..4 |->
           [id |-> i,
            role |-> IF i <= 2 THEN UserRole.CUSTOMER
                     ELSE IF i = 3 THEN UserRole.AGENT ELSE UserRole.ADMIN,
            is_active |-> TRUE]]

UserIds == DOMAIN User
Customers == {i \in UserIds : User[i].role = UserRole.CUSTOMER}

is_admin(u) == User[u].role = UserRole.ADMIN
is_agent(u) == User[u].role = UserRole.AGENT
is_customer(u) == User[u].role = UserRole.CUSTOMER

(***************************************************************************)
(* Ticket constants.                                                       *)
(***************************************************************************)
TicketStatus == {"open", "assigned", "in_progress", "waiting", "resolved",
                 "closed", "reopened"}

TRANSITIONS == [open |-> {"assigned", "closed"},
                assigned |-> {"in_progress", "closed"},
                in_progress |-> {"waiting", "resolved", "closed"},
                waiting |-> {"in_progress"},
                resolved |-> {"closed", "reopened"},
                closed |-> {"reopened"},
                reopened |-> {"in_progress"}]

TicketPriority == {"low", "medium", "high", "urgent"}

SLA == [urgent |-> <<2, 24>>,
        high |-> <<4, 48>>,
        medium |-> <<8, 120>>,
        low |-> <<24, 240>>]

TicketCategory == {"general", "billing"}

ReopenDays == 7

VARIABLES now, tickets, history, comments, assignments, next_id, issued,
          queue, pending, escalated, inactive, posts, next_post_id, cache,
          served, users

vars == <<now, tickets, history, comments, assignments, next_id, issued,
          queue, pending, escalated, inactive, posts, next_post_id,
          cache, served, users>>

\* User.is_active: True by default, False once the account is soft-deleted
is_active(u) == u \notin inactive

\* users.email and users.username of the accounts the store starts with
Emails == <<"a@x", "b@x", "c@x", "d@x">>
Usernames == <<"ann", "bob", "cat", "dan">>

(***************************************************************************)
(* Helpers for tables keyed by primary key.                                *)
(***************************************************************************)
Put(f, k, v) == [x \in (DOMAIN f) \cup {k} |-> IF x = k THEN v ELSE f[x]]
Drop(f, k) == [x \in (DOMAIN f) \ {k} |-> f[x]]
MaxOf(S) == CHOOSE m \in S : \A x \in S : x <= m

(***************************************************************************)
(* Ticket number: the text TICK-YYYYMMDD-NNNN is the pair of its date part *)
(* and the digit string of its last segment.                               *)
(***************************************************************************)
RECURSIVE Digits(_)
Digits(n) == IF n < 10 THEN <<n>> ELSE Append(Digits(n \div 10), n % 10)

RECURSIVE ZeroPad(_, _)
ZeroPad(s, w) == IF Len(s) >= w THEN s ELSE ZeroPad(<<0>> \o s, w)

\* f'{new_num:04d}'
Format04d(n) == ZeroPad(Digits(n), 4)

RECURSIVE ParseInt(_)
ParseInt(s) == IF s = <<>> THEN 0
               ELSE 10 * ParseInt(SubSeq(s, 1, Len(s) - 1)) + s[Len(s)]

\* datetime.utcnow().strftime('%Y%m%d')
Today(t_now) == t_now \div Day

generate_ticket_number(tks, t_now) ==
  LET prefix == Today(t_now)
      todays == {i \in DOMAIN tks : tks[i].ticket_number.date = prefix}
  IN  IF todays # {}
      THEN LET last_ticket == tks[MaxOf(todays)]
               last_num == ParseInt(last_ticket.ticket_number.seq)
           IN  [date |-> prefix, seq |-> Format04d(last_num + 1)]
      ELSE [date |-> prefix, seq |-> Format04d(1)]

(***************************************************************************)
(* Ticket methods.                                                         *)
(***************************************************************************)
calculate_sla_deadlines(t, t_now) ==
  LET base_time == IF t.created_at # None THEN t.created_at ELSE t_now
  IN  [t EXCEPT !.sla_response_due = base_time + SLA[t.priority][1] * Hour,
                !.sla_resolution_due = base_time + SLA[t.priority][2] * Hour]

\* the reopen window is not applied
can_transition_to_nowindow(t, new_status, t_now) ==
  new_status \in TRANSITIONS[t.status]

can_transition_to(t, new_status, t_now) ==
  IF t.status = "closed" /\ new_status = "reopened"
  THEN IF t.closed_at # None
       THEN ((t_now - t.closed_at) \div Day) <= ReopenDays
       ELSE FALSE
  ELSE new_status \in TRANSITIONS[t.status]

\* reopening leaves the closing time in place
transition_to_keeps_closed_at(t, new_status, t_now) ==
  IF ~can_transition_to(t, new_status, t_now) THEN t
  ELSE IF new_status = "resolved"
       THEN [t EXCEPT !.status = new_status, !.resolved_at = t_now]
  ELSE IF new_status = "closed"
       THEN [t EXCEPT !.status = new_status, !.closed_at = t_now]
  ELSE IF new_status = "reopened"
       THEN [t EXCEPT !.status = new_status, !.resolved_at = None]
  ELSE [t EXCEPT !.status = new_status]

\* reopening starts the SLA bookkeeping afresh
transition_to_resets_breach(t, new_status, t_now) ==
  IF ~can_transition_to(t, new_status, t_now) THEN t
  ELSE IF new_status = "resolved"
       THEN [t EXCEPT !.status = new_status, !.resolved_at = t_now]
  ELSE IF new_status = "closed"
       THEN [t EXCEPT !.status = new_status, !.closed_at = t_now]
  ELSE IF new_status = "reopened"
       THEN [t EXCEPT !.status = new_status, !.resolved_at = None,
                      !.closed_at = None, !.sla_breached = FALSE]
  ELSE [t EXCEPT !.status = new_status]

transition_to(t, new_status, t_now) ==
  IF ~can_transition_to(t, new_status, t_now) THEN t
  ELSE IF new_status = "resolved"
       THEN [t EXCEPT !.status = new_status, !.resolved_at = t_now]
  ELSE IF new_status = "closed"
       THEN [t EXCEPT !.status = new_status, !.closed_at = t_now]
  ELSE IF new_status = "reopened"
       THEN [t EXCEPT !.status = new_status, !.resolved_at = None,
                      !.closed_at = None]
  ELSE [t EXCEPT !.status = new_status]

record_first_response(t, t_now) ==
  IF t.first_response_at = None THEN [t EXCEPT !.first_response_at = t_now]
  ELSE t

can_access_ticket(u, t) ==
  IF is_admin(u) THEN TRUE
  ELSE IF is_agent(u)
       THEN t.assigned_to_id = u \/ t.assigned_to_id = None
  ELSE t.customer_id = u

(***************************************************************************)
(* create_history_entry: the row a handler adds; created_at is the column  *)
(* default, taken when the row is flushed.                                 *)
(***************************************************************************)
create_history_entry(action, u, old_value, new_value, details, t_now) ==
  [action |-> action, user_id |-> u, old_value |-> old_value,
   new_value |-> new_value, details |-> details, created_at |-> t_now]

(***************************************************************************)
(* Worker processes of the HTTP tier; pending[w] is the request worker w   *)
(* is in the middle of.                                                    *)
(***************************************************************************)
Workers == {"w1", "w2"}

NoNumber == [date |-> None, seq |-> <<>>]

Idle == [op |-> "none", phase |-> "idle", user |-> None, ticket |-> None,
         priority |-> "", number |-> NoNumber, internal |-> FALSE,
         first |-> FALSE, stamp |-> None, code |-> 0, marks |-> {},
         status |-> "", row |-> <<>>]

Init ==
  /\ now = 0
  /\ tickets = <<>>
  /\ history = <<>>
  /\ comments = <<>>
  /\ assignments = <<>>
  /\ next_id = 1
  /\ issued = <<>>
  /\ escalated = <<>>
  /\ inactive = {}
  /\ posts = <<>>
  /\ next_post_id = 1
  /\ cache = <<>>
  /\ served = <<>>
  /\ users = [u \in UserIds |-> [email |-> Emails[u], username |-> Usernames[u]]]
  /\ queue = EmptyBag
  /\ pending = [w \in Workers |-> Idle]

(***************************************************************************)
(* POST /tickets                                                           *)
(* The handler reads the next number and the SLA base time, then the row   *)
(* is inserted: created_at is the column default taken at the flush.       *)
(***************************************************************************)
NewTicket(u, priority, number, base_time, created_at) ==
  LET draft == [ticket_number |-> number,
                status |-> "open",
                priority |-> priority,
                category |-> "general",
                customer_id |-> u,
                assigned_to_id |-> None,
                first_response_at |-> None,
                sla_response_due |-> None,
                sla_resolution_due |-> None,
                sla_breached |-> FALSE,
                created_at |-> None,
                resolved_at |-> None,
                closed_at |-> None]
  IN  [calculate_sla_deadlines(draft, base_time)
         EXCEPT !.created_at = created_at]

InsertTicket(u, priority, number, base_time) ==
  LET id == next_id
  IN  /\ tickets' = Put(tickets, id,
                        NewTicket(u, priority, number, base_time, now))
      /\ history' = Put(history, id,
                        <<create_history_entry("created", u, NoneStr, "open",
                             <<"Ticket created with priority", priority>>, now)>>)
      /\ comments' = Put(comments, id, <<>>)
      /\ assignments' = Put(assignments, id, <<>>)
      /\ next_id' = next_id + 1
      /\ issued' = Append(issued, [id |-> id, ticket_number |-> number,
                                   created_at |-> now])
      /\ escalated' = Put(escalated, id, 0)

create_ticket(u, priority) ==
  /\ InsertTicket(u, priority, generate_ticket_number(tickets, now), now)
  /\ UNCHANGED <<users, posts, next_post_id, cache, served, now, inactive, queue, pending>>

(***************************************************************************)
(* DELETE /tickets/<id>  (admin_required; cascades to the child tables)    *)
(***************************************************************************)
delete_ticket_code(u, t) ==
  IF ~is_admin(u) THEN 403
  ELSE IF t \notin DOMAIN tickets THEN 404
  ELSE 204

delete_ticket(u, t) ==
  LET code == delete_ticket_code(u, t)
  IN  /\ IF code = 204
         THEN /\ tickets' = Drop(tickets, t)
              /\ history' = Drop(history, t)
              /\ comments' = Drop(comments, t)
              /\ assignments' = Drop(assignments, t)
         ELSE UNCHANGED <<tickets, history, comments, assignments>>
      /\ UNCHANGED <<users, posts, next_post_id, cache, served, now, inactive, next_id, issued, escalated, queue,
                     pending>>

(***************************************************************************)
(* PUT /tickets/<id>/status                                                *)
(* new_status is any string of the request body; TicketStatusUpdateSchema  *)
(* accepts the members of TicketStatus.ALL.                                *)
(***************************************************************************)
\* the owner of the ticket is not checked
update_ticket_status_code_anyowner(u, t, new_status) ==
  IF t \notin DOMAIN tickets THEN 404
  ELSE IF is_customer(u)
          /\ (new_status # "reopened" \/ tickets[t].status # "resolved")
       THEN 403
  ELSE IF new_status \notin TicketStatus THEN 400
  ELSE IF ~can_transition_to(tickets[t], new_status, now) THEN 400
  ELSE 200

update_ticket_status_code(u, t, new_status) ==
  IF t \notin DOMAIN tickets THEN 404
  ELSE IF is_customer(u)
          /\ (new_status # "reopened" \/ tickets[t].status # "resolved")
       THEN 403
  ELSE IF is_customer(u) /\ tickets[t].customer_id # u THEN 403
  ELSE IF new_status \notin TicketStatus THEN 400
  ELSE IF ~can_transition_to(tickets[t], new_status, now) THEN 400
  ELSE 200

update_ticket_status(u, t, new_status) ==
  LET code == update_ticket_status_code(u, t, new_status)
  IN  /\ IF code = 200
         THEN LET old_status == tickets[t].status
              IN  /\ tickets' = [tickets EXCEPT
                                   ![t] = transition_to(@, new_status, now)]
                  /\ history' = [history EXCEPT ![t] = Append(@,
                                   create_history_entry("status_changed", u,
                                     old_status, new_status, <<>>, now))]
         ELSE UNCHANGED <<tickets, history>>
      /\ UNCHANGED <<users, posts, next_post_id, cache, served, now, inactive, comments, assignments, next_id, issued,
                     escalated, queue, pending>>

(***************************************************************************)
(* PUT /tickets/<id>/priority  (agent_or_admin_required)                   *)
(***************************************************************************)
update_ticket_priority_code(u, t, new_priority) ==
  IF ~(is_agent(u) \/ is_admin(u)) THEN 403
  ELSE IF t \notin DOMAIN tickets THEN 404
  ELSE IF new_priority \notin TicketPriority THEN 400
  ELSE IF tickets[t].priority = new_priority THEN 400
  ELSE 200

update_ticket_priority(u, t, new_priority) ==
  LET code == update_ticket_priority_code(u, t, new_priority)
  IN  /\ IF code = 200
         THEN LET old_priority == tickets[t].priority
              IN  /\ tickets' = [tickets EXCEPT ![t] =
                        calculate_sla_deadlines(
                          [@ EXCEPT !.priority = new_priority], now)]
                  /\ history' = [history EXCEPT ![t] = Append(@,
                                   create_history_entry("priority_changed", u,
                                     old_priority, new_priority,
                                     <<"reason">>, now))]
         ELSE UNCHANGED <<tickets, history>>
      /\ UNCHANGED <<users, posts, next_post_id, cache, served, now, inactive, comments, assignments, next_id, issued,
                     escalated, queue, pending>>

(***************************************************************************)
(* POST /tickets/<id>/assign  (admin_required)                             *)
(***************************************************************************)
\* the target's account state is not looked at
assign_ticket_code_disabled(u, t, agent_id) ==
  IF ~is_admin(u) THEN 403
  ELSE IF t \notin DOMAIN tickets THEN 404
  ELSE IF agent_id \notin UserIds THEN 404
  ELSE IF ~is_agent(agent_id) /\ ~is_admin(agent_id) THEN 400
  ELSE 200

assign_ticket_code(u, t, agent_id) ==
  IF ~is_admin(u) THEN 403
  ELSE IF t \notin DOMAIN tickets THEN 404
  ELSE IF agent_id \notin UserIds THEN 404
  ELSE IF ~is_agent(agent_id) /\ ~is_admin(agent_id) THEN 400
  ELSE IF ~is_active(agent_id) THEN 400
  ELSE 200

\* the rows the handler leaves behind: ticket, assignment log, history
assign_ticket_tickets(u, t, agent_id) ==
  IF assign_ticket_code(u, t, agent_id) # 200 THEN tickets
  ELSE [tickets EXCEPT ![t] =
          [@ EXCEPT !.assigned_to_id = agent_id,
                    !.status = IF @ = "open" THEN "assigned" ELSE @]]

assign_ticket_assignments(u, t, agent_id) ==
  IF assign_ticket_code(u, t, agent_id) # 200 THEN assignments
  ELSE [assignments EXCEPT ![t] = Append(@,
          [assigned_to_id |-> agent_id, assigned_by_id |-> u,
           assigned_at |-> now])]

assign_ticket_history(u, t, agent_id) ==
  IF assign_ticket_code(u, t, agent_id) # 200 THEN history
  ELSE LET old_assigned == tickets[t].assigned_to_id
       IN  [history EXCEPT ![t] = Append(@,
              create_history_entry("assigned", u,
                IF old_assigned # None THEN ToString(old_assigned)
                ELSE NoneStr,
                ToString(agent_id), <<"Assigned to", agent_id>>, now))]

assign_ticket(u, t, agent_id) ==
  /\ tickets' = assign_ticket_tickets(u, t, agent_id)
  /\ assignments' = assign_ticket_assignments(u, t, agent_id)
  /\ history' = assign_ticket_history(u, t, agent_id)
  /\ UNCHANGED <<users, posts, next_post_id, cache, served, now, inactive, comments, next_id, issued, escalated,
                 queue, pending>>

(***************************************************************************)
(* POST /tickets/<id>/comments                                             *)
(***************************************************************************)
add_ticket_comment_code(u, t) ==
  IF t \notin DOMAIN tickets THEN 404
  ELSE IF ~can_access_ticket(u, tickets[t]) THEN 403
  ELSE 201

\* the rows the handler writes: comment, first response, history entry
StoreComment(u, t, is_internal, first, responded_at, created_at) ==
  /\ comments' = [comments EXCEPT ![t] = Append(@,
        [user_id |-> u, is_internal |-> is_internal,
         created_at |-> created_at])]
  /\ tickets' = [tickets EXCEPT ![t] =
        IF first THEN [@ EXCEPT !.first_response_at = responded_at] ELSE @]
  /\ history' = [history EXCEPT ![t] = Append(@,
        create_history_entry("commented", u, NoneStr, NoneStr,
          IF is_internal THEN <<"Internal note added">>
          ELSE <<"Comment added">>, created_at))]

\* every comment of an agent or admin stamps the ticket anew
FirstResponse_every(u, t) ==
  is_agent(u) \/ is_admin(u)

\* (user.is_agent or user.is_admin) and not ticket.first_response_at,
\* followed by record_first_response()
FirstResponse(u, t) ==
  /\ is_agent(u) \/ is_admin(u)
  /\ tickets[t].first_response_at = None
  /\ record_first_response(tickets[t], now).first_response_at = now

add_ticket_comment(u, t, internal) ==
  LET code == add_ticket_comment_code(u, t)
      is_internal == IF is_customer(u) /\ internal THEN FALSE ELSE internal
  IN  /\ IF code = 201
         THEN StoreComment(u, t, is_internal, FirstResponse(u, t), now, now)
         ELSE UNCHANGED <<tickets, history, comments>>
      /\ UNCHANGED <<users, posts, next_post_id, cache, served, now, inactive, assignments, next_id, issued, escalated,
                     queue, pending>>

(***************************************************************************)
(* PUT /tickets/<id>   (of the schema's fields the category is modelled)   *)
(***************************************************************************)
update_ticket_code(u, t) ==
  IF t \notin DOMAIN tickets THEN 404
  ELSE IF ~can_access_ticket(u, tickets[t]) THEN 403
  ELSE IF is_customer(u) /\ tickets[t].status \notin {"open", "waiting"}
       THEN 403
  ELSE 200

update_ticket(u, t, category) ==
  LET code == update_ticket_code(u, t)
  IN  /\ IF code = 200 /\ tickets[t].category # category
         THEN /\ tickets' = [tickets EXCEPT ![t].category = category]
              /\ history' = [history EXCEPT ![t] = Append(@,
                    create_history_entry("updated", u, NoneStr, NoneStr,
                      <<"category", tickets[t].category, category>>, now))]
         ELSE UNCHANGED <<tickets, history>>
      /\ UNCHANGED <<users, posts, next_post_id, cache, served, now, inactive, comments, assignments, next_id, issued,
                     escalated, queue, pending>>

(***************************************************************************)
(* Celery: the periodic SLA sweep.  Jobs sent with .delay() go to the      *)
(* broker queue, a bag.                                                    *)
(***************************************************************************)
active_statuses == {"open", "assigned", "in_progress", "waiting", "reopened"}

warning_threshold == 30

EscalateJob(t) == [task |-> "escalate_ticket", ticket_id |-> t,
                   kind |-> "", to |-> None]
EmailJob(t, kind, to) == [task |-> "send_sla_warning_email", ticket_id |-> t,
                          kind |-> kind, to |-> to]

tickets_approaching_response ==
  {t \in DOMAIN tickets :
     /\ tickets[t].status \in active_statuses
     /\ tickets[t].first_response_at = None
     /\ tickets[t].sla_response_due <= now + warning_threshold
     /\ tickets[t].sla_response_due > now}

\* the resolution query carries the first-response condition too
tickets_approaching_resolution_unanswered ==
  {t \in DOMAIN tickets :
     /\ tickets[t].status \in active_statuses
     /\ tickets[t].first_response_at = None
     /\ tickets[t].sla_resolution_due <= now + warning_threshold
     /\ tickets[t].sla_resolution_due > now}

tickets_approaching_resolution ==
  {t \in DOMAIN tickets :
     /\ tickets[t].status \in active_statuses
     /\ tickets[t].sla_resolution_due <= now + warning_threshold
     /\ tickets[t].sla_resolution_due > now}

\* the sweep does not look at the flag
breached_tickets_again ==
  {t \in DOMAIN tickets :
     /\ tickets[t].status \in active_statuses
     /\ \/ /\ tickets[t].first_response_at = None
           /\ tickets[t].sla_response_due < now
        \/ tickets[t].sla_resolution_due < now}

breached_tickets ==
  {t \in DOMAIN tickets :
     /\ tickets[t].status \in active_statuses
     /\ tickets[t].sla_breached = FALSE
     /\ \/ /\ tickets[t].first_response_at = None
           /\ tickets[t].sla_response_due < now
        \/ tickets[t].sla_resolution_due < now}

\* the jobs one run hands to the broker
check_sla_breaches_jobs ==
  LET response_mails == {EmailJob(t, "response", tickets[t].assigned_to_id) :
         t \in {x \in tickets_approaching_response :
                   tickets[x].assigned_to_id # None}}
      resolution_mails ==
        {EmailJob(t, "resolution", tickets[t].assigned_to_id) :
         t \in {x \in tickets_approaching_resolution :
                   tickets[x].assigned_to_id # None}}
      escalations == {EscalateJob(t) : t \in breached_tickets}
  IN  SetToBag(response_mails) (+) SetToBag(resolution_mails)
        (+) SetToBag(escalations)

\* the tickets table one run commits
check_sla_breaches_marked ==
  [t \in DOMAIN tickets |->
     IF t \in breached_tickets
     THEN [tickets[t] EXCEPT !.sla_breached = TRUE]
     ELSE tickets[t]]

check_sla_breaches ==
  /\ tickets' = check_sla_breaches_marked
  /\ queue' = queue (+) check_sla_breaches_jobs
  /\ escalated' = [t \in DOMAIN escalated |->
                     escalated[t] + CopiesIn(EscalateJob(t),
                                             check_sla_breaches_jobs)]
  /\ UNCHANGED <<users, posts, next_post_id, cache, served, now, inactive, history, comments, assignments, next_id,
                 issued, pending>>

(***************************************************************************)
(* Celery: escalate_ticket(ticket_id), taken from the queue by a worker.   *)
(***************************************************************************)
active_admins == {u \in UserIds : is_admin(u) /\ is_active(u)}

\* admin = User.query.filter_by(role=ADMIN, is_active=True).first()
escalation_admin == CHOOSE a \in active_admins : \A b \in active_admins : a <= b

\* what the task returns: 'error', 'warning' or 'success'; an exception
\* would end in self.retry
escalate_ticket_status(job) ==
  IF job.ticket_id \notin DOMAIN tickets THEN "error"
  ELSE IF active_admins = {} THEN "warning"
  ELSE "success"

\* the tickets table and the history the task commits
escalate_ticket_tickets(job) ==
  LET t == job.ticket_id
  IN  IF escalate_ticket_status(job) = "success"
         /\ tickets[t].priority # "urgent"
      THEN [tickets EXCEPT ![t].priority = "urgent"]
      ELSE tickets

\* the entry is written whatever the priority was
escalate_ticket_history_always(job) ==
  LET t == job.ticket_id
  IN  IF escalate_ticket_status(job) = "success"
      THEN [history EXCEPT ![t] = Append(@,
              create_history_entry("priority_changed", escalation_admin,
                tickets[t].priority, "urgent",
                <<"Auto-escalated due to SLA breach">>, now))]
      ELSE history

escalate_ticket_history(job) ==
  LET t == job.ticket_id
  IN  IF escalate_ticket_status(job) = "success"
         /\ tickets[t].priority # "urgent"
      THEN [history EXCEPT ![t] = Append(@,
              create_history_entry("priority_changed", escalation_admin,
                tickets[t].priority, "urgent",
                <<"Auto-escalated due to SLA breach">>, now))]
      ELSE history

\* the jobs the task hands to the broker
escalate_ticket_jobs(job) ==
  IF escalate_ticket_status(job) = "success"
  THEN SetToBag({EmailJob(job.ticket_id, "escalation", escalation_admin)})
  ELSE EmptyBag

escalate_ticket(job) ==
  /\ BagIn(job, queue)
  /\ job.task = "escalate_ticket"
  /\ tickets' = escalate_ticket_tickets(job)
  /\ history' = escalate_ticket_history(job)
  /\ queue' = (queue (-) SetToBag({job})) (+) escalate_ticket_jobs(job)
  /\ UNCHANGED <<users, posts, next_post_id, cache, served, now, inactive, comments, assignments, next_id, issued,
                 escalated, pending>>

(***************************************************************************)
(* Celery: send_sla_warning_email logs the mail; the job leaves the queue. *)
(***************************************************************************)
send_sla_warning_email(job) ==
  /\ BagIn(job, queue)
  /\ job.task = "send_sla_warning_email"
  /\ queue' = queue (-) SetToBag({job})
  /\ UNCHANGED <<users, posts, next_post_id, cache, served, now, inactive, tickets, history, comments, assignments,
                 next_id, issued, escalated, pending>>

(***************************************************************************)
(* POST /auth/login with the right password, and POST /auth/refresh with   *)
(* a refresh token of identity u that has not expired.                     *)
(***************************************************************************)
login_code(u) ==
  IF u \notin DOMAIN users THEN 401
  ELSE IF ~is_active(u) THEN 401
  ELSE 200

\* jwt_required(refresh=True) verifies the token; the user is not loaded
refresh_code(u) == 200

(***************************************************************************)
(* DELETE /users/<id> and DELETE /users/me: the account is soft-deleted.   *)
(***************************************************************************)
delete_user_code(u, target) ==
  IF u # target /\ ~is_admin(u) THEN 403
  ELSE IF target \notin DOMAIN users THEN 404
  ELSE 204

delete_user(u, target) ==
  /\ inactive' = IF delete_user_code(u, target) = 204
                 THEN inactive \cup {target} ELSE inactive
  /\ UNCHANGED <<users, posts, next_post_id, cache, served, now, tickets, history, comments, assignments, next_id,
                 issued, queue, pending, escalated>>

(***************************************************************************)
(* POST /auth/register and PUT /users/<id>.  users.email and               *)
(* users.username are unique columns: a commit that would store a value    *)
(* twice raises IntegrityError, the transaction is rolled back and the     *)
(* request is answered by the handler for uncaught exceptions (500).       *)
(***************************************************************************)
EmailTaken(rows, email) == \E x \in DOMAIN rows : rows[x].email = email
UsernameTaken(rows, username) ==
  \E x \in DOMAIN rows : rows[x].username = username

\* the unique constraints of the users table
UniqueUsers(rows) ==
  \A x, y \in DOMAIN rows :
     x # y => /\ rows[x].email # rows[y].email
              /\ rows[x].username # rows[y].username

register_code(email, username) ==
  IF EmailTaken(users, email) THEN 409
  ELSE IF UsernameTaken(users, username) THEN 409
  ELSE 201

register_users(email, username) ==
  IF register_code(email, username) # 201 THEN users
  ELSE Put(users, MaxOf(DOMAIN users) + 1,
           [email |-> email, username |-> username])

register(email, username) ==
  /\ users' = register_users(email, username)
  /\ UNCHANGED <<posts, next_post_id, cache, served, now, inactive, tickets,
                 history, comments, assignments, next_id, issued, escalated,
                 queue, pending>>

\* the row after the setattr loop; a field the body does not carry is NoneStr
update_user_row(row, email, username) ==
  [email |-> IF email = NoneStr THEN row.email ELSE email,
   username |-> IF username = NoneStr THEN row.username ELSE username]

update_user_code(u, target, email, username) ==
  IF target \notin DOMAIN users THEN 404
  ELSE IF u # target /\ ~is_admin(u) THEN 403
  ELSE IF ~UniqueUsers([users EXCEPT
                          ![target] = update_user_row(@, email, username)])
       THEN 500
  ELSE 200

update_user_users(u, target, email, username) ==
  IF update_user_code(u, target, email, username) # 200 THEN users
  ELSE [users EXCEPT ![target] = update_user_row(@, email, username)]

update_user(u, target, email, username) ==
  /\ users' = update_user_users(u, target, email, username)
  /\ UNCHANGED <<posts, next_post_id, cache, served, now, inactive, tickets,
                 history, comments, assignments, next_id, issued, escalated,
                 queue, pending>>

Tick(d) ==
  /\ now' = now + d
  /\ UNCHANGED <<users, posts, next_post_id, cache, served, inactive, tickets, history, comments, assignments, next_id,
                 issued, escalated, queue, pending>>

(***************************************************************************)
(* GET /tickets  (jwt_required; no filter parameters, first page)          *)
(***************************************************************************)
per_page == 20

\* agents are shown their own tickets only
list_tickets_query_own(u) ==
  IF is_admin(u) THEN DOMAIN tickets
  ELSE IF is_agent(u)
       THEN {t \in DOMAIN tickets : tickets[t].assigned_to_id = u}
  ELSE {t \in DOMAIN tickets : tickets[t].customer_id = u}

\* the base query, by role
list_tickets_query(u) ==
  IF is_admin(u) THEN DOMAIN tickets
  ELSE IF is_agent(u)
       THEN {t \in DOMAIN tickets : \/ tickets[t].assigned_to_id = u
                                    \/ tickets[t].assigned_to_id = None}
  ELSE {t \in DOMAIN tickets : tickets[t].customer_id = u}

\* the pages the database may return: the per_page newest rows of the query
\* (rows created at the same time come in any order)
list_tickets(u) ==
  LET q == list_tickets_query(u)
      n == IF Cardinality(q) < per_page THEN Cardinality(q) ELSE per_page
  IN  {P \in SUBSET q :
         /\ Cardinality(P) = n
         /\ \A x \in P, y \in q \ P :
              tickets[x].created_at >= tickets[y].created_at}

(***************************************************************************)
(* GET /tickets/<id>/history                                               *)
(* ORDER BY created_at DESC: the answer is the ticket's rows, later        *)
(* created_at first; rows of equal created_at come in an order the store   *)
(* chooses.  get_ticket_history is the set of possible answers.            *)
(***************************************************************************)
Perms(n) == {f \in [1..n -> 1..n] : \A i, j \in 1..n : f[i] = f[j] => i = j}

\* ORDER BY created_at ASC
created_at_asc(rows) ==
  \A i, j \in 1..Len(rows) : i < j => rows[i].created_at <= rows[j].created_at

created_at_desc(rows) ==
  \A i, j \in 1..Len(rows) : i < j => rows[i].created_at >= rows[j].created_at

get_ticket_history_code(u, t) ==
  IF t \notin DOMAIN tickets THEN 404
  ELSE IF ~can_access_ticket(u, tickets[t]) THEN 403
  ELSE 200

get_ticket_history(t) ==
  LET rows == history[t]
      n == Len(rows)
  IN  {l \in {[i \in 1..n |-> rows[f[i]]] : f \in Perms(n)} :
         created_at_desc(l)}

(***************************************************************************)
(* GET /tickets/<id>/comments                                              *)
(***************************************************************************)
get_ticket_comments_code(u, t) ==
  IF t \notin DOMAIN tickets THEN 404
  ELSE IF ~can_access_ticket(u, tickets[t]) THEN 403
  ELSE 200

IsPublic(c) == ~c.is_internal

\* every caller is shown every comment
get_ticket_comments_unfiltered(u, t) ==
  LET rows == comments[t]
      n == Len(rows)
  IN  {l \in {[i \in 1..n |-> rows[f[i]]] : f \in Perms(n)} :
         created_at_asc(l)}

\* the listings the query may return: ORDER BY created_at ASC, and for a
\* customer filter_by(is_internal=False)
get_ticket_comments(u, t) ==
  LET rows == IF is_customer(u) THEN SelectSeq(comments[t], IsPublic)
              ELSE comments[t]
      n == Len(rows)
  IN  {l \in {[i \in 1..n |-> rows[f[i]]] : f \in Perms(n)} :
         created_at_asc(l)}

(***************************************************************************)
(* Overlapping requests.  A handler runs in a worker up to its commit;     *)
(* another worker may run in between.  The store shows a row to other      *)
(* sessions once its transaction is committed.                             *)
(***************************************************************************)
Free(w) == pending[w].phase # "open"

\* the worker has answered the request
Done(op, code) == [Idle EXCEPT !.op = op, !.phase = "done", !.code = code]

\* create_ticket up to db.session.add(ticket): the number and the SLA base
\* time are read here
create_ticket_begin(w, u, priority) ==
  /\ Free(w)
  /\ pending' = [pending EXCEPT ![w] =
        [Idle EXCEPT !.op = "create", !.phase = "open", !.user = u,
                     !.priority = priority,
                     !.number = generate_ticket_number(tickets, now),
                     !.stamp = now]]
  /\ UNCHANGED <<users, posts, next_post_id, cache, served, now, inactive, tickets, history, comments, assignments,
                 next_id, issued, escalated, queue>>

\* flush and commit: ticket_number is a unique column, the insert of a
\* number that a committed row holds raises IntegrityError (answer 500)
create_ticket_commit(w) ==
  LET p == pending[w]
      conflict == \E i \in DOMAIN tickets :
                     tickets[i].ticket_number = p.number
  IN  /\ p.op = "create" /\ p.phase = "open"
      /\ IF conflict
         THEN /\ pending' = [pending EXCEPT ![w] = Done("create", 500)]
              /\ UNCHANGED <<tickets, history, comments, assignments,
                             next_id, issued, escalated>>
         ELSE /\ InsertTicket(p.user, p.priority, p.number, p.stamp)
              /\ pending' = [pending EXCEPT ![w] = Done("create", 201)]
      /\ UNCHANGED <<users, posts, next_post_id, cache, served, now, inactive, queue>>

\* true when another open transaction has updated the row of ticket t
RowLocked(w, t) ==
  \E v \in Workers \ {w} :
     /\ pending[v].phase = "open" /\ pending[v].op = "comment"
     /\ pending[v].ticket = t /\ pending[v].first

\* add_ticket_comment up to the flush inside db.session.commit(): the
\* created_at defaults of the new rows are taken here
add_ticket_comment_flush(w, u, t, internal) ==
  LET code == add_ticket_comment_code(u, t)
      is_internal == IF is_customer(u) /\ internal THEN FALSE ELSE internal
  IN  /\ Free(w)
      /\ code = 201 => (FirstResponse(u, t) => ~RowLocked(w, t))
      /\ pending' = [pending EXCEPT ![w] =
            IF code = 201
            THEN [Idle EXCEPT !.op = "comment", !.phase = "open",
                              !.user = u, !.ticket = t,
                              !.internal = is_internal,
                              !.first = FirstResponse(u, t),
                              !.stamp = now]
            ELSE Done("comment", code)]
      /\ UNCHANGED <<users, posts, next_post_id, cache, served, now, inactive, tickets, history, comments, assignments,
                     next_id, issued, escalated, queue>>

add_ticket_comment_commit(w) ==
  LET p == pending[w]
  IN  /\ p.op = "comment" /\ p.phase = "open"
      /\ StoreComment(p.user, p.ticket, p.internal, p.first, p.stamp,
                      p.stamp)
      /\ pending' = [pending EXCEPT ![w] = Done("comment", 201)]
      /\ UNCHANGED <<users, posts, next_post_id, cache, served, now, inactive, assignments, next_id, issued, escalated,
                     queue>>

(***************************************************************************)
(* Overlapping Celery tasks.  A task reads its rows when it starts and     *)
(* writes them at db.session.commit(); the flush is part of the commit.    *)
(* The jobs a task hands to the broker with delay() leave before the       *)
(* commit.                                                                 *)
(***************************************************************************)
\* check_sla_breaches up to db.session.commit(): the queries have run, the
\* mails and the escalations are enqueued
check_sla_breaches_begin(w) ==
  /\ Free(w)
  /\ pending' = [pending EXCEPT ![w] =
        [Idle EXCEPT !.op = "sweep", !.phase = "open",
                     !.marks = breached_tickets]]
  /\ queue' = queue (+) check_sla_breaches_jobs
  /\ escalated' = [t \in DOMAIN escalated |->
                     escalated[t] + CopiesIn(EscalateJob(t),
                                             check_sla_breaches_jobs)]
  /\ UNCHANGED <<users, posts, next_post_id, cache, served, now, inactive,
                 tickets, history, comments, assignments, next_id, issued>>

\* the commit writes sla_breached of the tickets the query had returned
check_sla_breaches_commit(w) ==
  LET p == pending[w]
  IN  /\ p.op = "sweep" /\ p.phase = "open"
      /\ tickets' = [t \in DOMAIN tickets |->
                       IF t \in p.marks
                       THEN [tickets[t] EXCEPT !.sla_breached = TRUE]
                       ELSE tickets[t]]
      /\ pending' = [pending EXCEPT ![w] = Done("sweep", 0)]
      /\ UNCHANGED <<users, posts, next_post_id, cache, served, now,
                     inactive, history, comments, assignments, next_id,
                     issued, escalated, queue>>

\* escalate_ticket up to db.session.commit(): the ticket and the admin are
\* read, the priority is compared with 'urgent'
escalate_ticket_begin(w, job) ==
  /\ Free(w)
  /\ BagIn(job, queue)
  /\ job.task = "escalate_ticket"
  /\ pending' = [pending EXCEPT ![w] =
        IF escalate_ticket_status(job) = "success"
        THEN [Idle EXCEPT !.op = "escalate", !.phase = "open",
                          !.ticket = job.ticket_id,
                          !.priority = tickets[job.ticket_id].priority,
                          !.user = escalation_admin]
        ELSE Done("escalate", 0)]
  /\ queue' = queue (-) SetToBag({job})
  /\ UNCHANGED <<users, posts, next_post_id, cache, served, now, inactive,
                 tickets, history, comments, assignments, next_id, issued,
                 escalated>>

\* the notification is enqueued and the session is committed: the priority
\* and the history entry are written when the priority read was not urgent
escalate_ticket_commit(w) ==
  LET p == pending[w]
      t == p.ticket
  IN  /\ p.op = "escalate" /\ p.phase = "open"
      /\ IF p.priority # "urgent"
         THEN /\ tickets' = [tickets EXCEPT ![t].priority = "urgent"]
              /\ history' = [history EXCEPT ![t] = Append(@,
                     create_history_entry("priority_changed", p.user,
                       p.priority, "urgent",
                       <<"Auto-escalated due to SLA breach">>, now))]
         ELSE UNCHANGED <<tickets, history>>
      /\ queue' = queue (+) SetToBag({EmailJob(t, "escalation", p.user)})
      /\ pending' = [pending EXCEPT ![w] = Done("escalate", 0)]
      /\ UNCHANGED <<users, posts, next_post_id, cache, served, now,
                     inactive, comments, assignments, next_id, issued,
                     escalated>>

(***************************************************************************)
(* PUT /tickets/<id>/status in two workers.  The handler reads the ticket, *)
(* validates the transition against the row it has read and changes that   *)
(* row in memory; the UPDATE of the changed columns and the INSERT of the  *)
(* history entry are sent at db.session.commit().                          *)
(***************************************************************************)
update_ticket_status_begin(w, u, t, new_status) ==
  LET code == update_ticket_status_code(u, t, new_status)
  IN  /\ Free(w)
      /\ pending' = [pending EXCEPT ![w] =
            IF code = 200
            THEN [Idle EXCEPT !.op = "status", !.phase = "open",
                              !.user = u, !.ticket = t,
                              !.status = new_status,
                              !.row = <<tickets[t]>>,
                              !.stamp = now]
            ELSE Done("status", code)]
      /\ UNCHANGED <<users, posts, next_post_id, cache, served, now,
                     inactive, tickets, history, comments, assignments,
                     next_id, issued, escalated, queue>>

\* the stored row after the UPDATE: the columns whose value the handler has
\* changed are written, the others stay as they are stored
update_ticket_status_written(stored, read, new_status, t_now) ==
  LET after == transition_to(read, new_status, t_now)
  IN  [stored EXCEPT
         !.status = IF after.status # read.status
                    THEN after.status ELSE @,
         !.resolved_at = IF after.resolved_at # read.resolved_at
                         THEN after.resolved_at ELSE @,
         !.closed_at = IF after.closed_at # read.closed_at
                       THEN after.closed_at ELSE @]

update_ticket_status_commit(w) ==
  LET p == pending[w]
      t == p.ticket
  IN  /\ p.op = "status" /\ p.phase = "open"
      /\ tickets' = [tickets EXCEPT ![t] =
            update_ticket_status_written(@, p.row[1], p.status, p.stamp)]
      /\ history' = [history EXCEPT ![t] = Append(@,
            create_history_entry("status_changed", p.user,
              p.row[1].status, p.status, <<>>, now))]
      /\ pending' = [pending EXCEPT ![w] = Done("status", 200)]
      /\ UNCHANGED <<users, posts, next_post_id, cache, served, now,
                     inactive, comments, assignments, next_id, issued,
                     escalated, queue>>

(***************************************************************************)
(* Request inputs and the guards that keep the model finite.               *)
(***************************************************************************)
TicketIds == 1..MaxTickets
StatusInputs == TicketStatus \cup {"bogus"}
PriorityInputs == TicketPriority \cup {"bogus"}
AgentInputs == UserIds \cup {0}

RECURSIVE SumLen(_, _)
SumLen(f, S) == IF S = {} THEN 0
                ELSE LET x == CHOOSE y \in S : TRUE
                     IN  Len(f[x]) + SumLen(f, S \ {x})

\* rows of the ticket_history table
HistoryRows == SumLen(history, DOMAIN history)
HistRoom(max) == HistoryRows < max

Next ==
  \/ /\ next_id <= MaxTickets
     /\ HistRoom(MaxHistory)
     /\ \E u \in Customers, p \in TicketPriority :
          create_ticket(u, p)
  \/ \E u \in UserIds, t \in TicketIds : delete_ticket(u, t)
  \/ /\ HistRoom(MaxHistory)
     /\ \E u \in UserIds, t \in TicketIds, s \in StatusInputs :
          update_ticket_status(u, t, s)
  \/ /\ HistRoom(MaxHistory)
     /\ \E u \in UserIds, t \in TicketIds, p \in PriorityInputs :
          update_ticket_priority(u, t, p)
  \/ /\ HistRoom(MaxHistory)
     /\ \E u \in UserIds, t \in TicketIds, a \in AgentInputs :
          assign_ticket(u, t, a)
  \/ /\ HistRoom(MaxHistory)
     /\ \E u \in UserIds, t \in TicketIds, i \in BOOLEAN :
          add_ticket_comment(u, t, i)
  \/ /\ HistRoom(MaxHistory)
     /\ \E u \in UserIds, t \in TicketIds, c \in TicketCategory :
          update_ticket(u, t, c)
  \/ check_sla_breaches /\ BagCardinality(queue') <= MaxQueue
  \/ /\ HistRoom(MaxHistory)
     /\ \E job \in BagToSet(queue) :
          escalate_ticket(job)
  \/ \E job \in BagToSet(queue) : send_sla_warning_email(job)
  \/ \E d \in TickSteps : now + d <= MaxTicks * d /\ Tick(d)

(***************************************************************************)
(* The status workflow of a ticket: creation, assignment, status requests. *)
(***************************************************************************)
FlowCreators == {1}
FlowPriorities == {"medium"}
\* assignment requests: an agent, a customer and an id of no user
FlowAgents == {3, 1, 0}

NextFlow ==
  \/ /\ next_id <= MaxTicketsFlow
     /\ HistRoom(MaxHistoryFlow)
     /\ \E u \in FlowCreators, p \in FlowPriorities :
          create_ticket(u, p)
  \/ /\ HistRoom(MaxHistoryFlow)
     /\ \E u \in UserIds, t \in 1..MaxTicketsFlow, s \in StatusInputs :
          update_ticket_status(u, t, s)
  \/ /\ HistRoom(MaxHistoryFlow)
     /\ \E u \in UserIds, t \in 1..MaxTicketsFlow, a \in FlowAgents :
          assign_ticket(u, t, a)
  \/ \E d \in TickSteps : now + d <= MaxTicksFlow * d /\ Tick(d)

SpecFlow == Init /\ [][NextFlow]_vars

(***************************************************************************)
(* The lifecycle of a ticket: its customer, the admin who assigns it to    *)
(* the agent, the agent who works on it, with time passing in between.     *)
(***************************************************************************)
LifeRequesters == {1, 3}
LifeAdmins == {4}
LifeAgents == {3}

NextLife ==
  \/ /\ next_id <= MaxTicketsLife
     /\ HistRoom(MaxHistoryLife)
     /\ \E u \in FlowCreators, p \in FlowPriorities :
          create_ticket(u, p)
  \/ /\ HistRoom(MaxHistoryLife)
     /\ \E u \in LifeRequesters, t \in 1..MaxTicketsLife, s \in StatusInputs :
          update_ticket_status(u, t, s)
  \/ /\ HistRoom(MaxHistoryLife)
     /\ \E u \in LifeAdmins, t \in 1..MaxTicketsLife, a \in LifeAgents :
          assign_ticket(u, t, a)
  \/ \E d \in TickSteps : now + d <= MaxTicksLife * d /\ Tick(d)

SpecLife == Init /\ [][NextLife]_vars

(***************************************************************************)
(* Every operation on a ticket that runs into its deadlines: the requests  *)
(* of its customer, of the agent and of the admin, and the SLA jobs.       *)
(***************************************************************************)
SlaPriorities == {"high", "urgent"}
SlaPriorityInputs == {"low", "bogus"}
SlaCategories == {"billing"}

NextSla ==
  \/ /\ next_id <= MaxTicketsSla
     /\ HistRoom(MaxHistorySla)
     /\ \E u \in FlowCreators, p \in SlaPriorities :
          create_ticket(u, p)
  \/ \E u \in LifeAdmins, t \in 1..MaxTicketsSla : delete_ticket(u, t)
  \/ /\ HistRoom(MaxHistorySla)
     /\ \E u \in LifeRequesters, t \in 1..MaxTicketsSla, s \in StatusInputs :
          update_ticket_status(u, t, s)
  \/ /\ HistRoom(MaxHistorySla)
     /\ \E u \in LifeRequesters, t \in 1..MaxTicketsSla,
           p \in SlaPriorityInputs :
          update_ticket_priority(u, t, p)
  \/ /\ HistRoom(MaxHistorySla)
     /\ \E u \in LifeAdmins, t \in 1..MaxTicketsSla, a \in LifeAgents :
          assign_ticket(u, t, a)
  \/ /\ HistRoom(MaxHistorySla)
     /\ \E u \in LifeRequesters, t \in 1..MaxTicketsSla, i \in BOOLEAN :
          add_ticket_comment(u, t, i)
  \/ /\ HistRoom(MaxHistorySla)
     /\ \E u \in LifeRequesters, t \in 1..MaxTicketsSla,
           c \in SlaCategories :
          update_ticket(u, t, c)
  \/ check_sla_breaches /\ BagCardinality(queue') <= MaxQueueSla
  \/ /\ HistRoom(MaxHistorySla)
     /\ \E job \in BagToSet(queue) :
          escalate_ticket(job)
  \/ \E job \in BagToSet(queue) : send_sla_warning_email(job)
  \/ \E d \in TickSteps : now + d <= MaxTicksSla * d /\ Tick(d)

SpecSla == Init /\ [][NextSla]_vars

(***************************************************************************)
(* An urgent ticket on its way to the resolution deadline: assignment,     *)
(* comments, status requests and the SLA jobs, the clock moving in steps   *)
(* that reach the warning window.                                          *)
(***************************************************************************)
WarnPriorities == {"urgent"}
WarnInternal == {FALSE}

NextWarn ==
  \/ /\ next_id <= MaxTicketsWarn
     /\ HistRoom(MaxHistoryWarn)
     /\ \E u \in FlowCreators, p \in WarnPriorities :
          create_ticket(u, p)
  \/ /\ HistRoom(MaxHistoryWarn)
     /\ \E u \in LifeAgents, t \in 1..MaxTicketsWarn, s \in StatusInputs :
          update_ticket_status(u, t, s)
  \/ /\ HistRoom(MaxHistoryWarn)
     /\ \E u \in LifeAdmins, t \in 1..MaxTicketsWarn, a \in LifeAgents :
          assign_ticket(u, t, a)
  \/ /\ HistRoom(MaxHistoryWarn)
     /\ \E u \in LifeRequesters, t \in 1..MaxTicketsWarn,
           i \in WarnInternal :
          add_ticket_comment(u, t, i)
  \/ check_sla_breaches /\ BagCardinality(queue') <= MaxQueueWarn
  \/ /\ HistRoom(MaxHistoryWarn)
     /\ \E job \in BagToSet(queue) :
          escalate_ticket(job)
  \/ \E job \in BagToSet(queue) : send_sla_warning_email(job)
  \/ \E d \in TickStepsWarn : now + d <= MaxTicksWarn * d /\ Tick(d)

SpecWarn == Init /\ [][NextWarn]_vars

(***************************************************************************)
(* Escalation: tickets that breach, the SLA jobs, the assignment of        *)
(* tickets, and accounts that are soft-deleted.                            *)
(***************************************************************************)
UserInputs == UserIds \cup {0}

NextEsc ==
  \/ /\ next_id <= MaxTicketsEsc
     /\ HistRoom(MaxHistoryEsc)
     /\ \E u \in FlowCreators, p \in SlaPriorities :
          create_ticket(u, p)
  \/ /\ HistRoom(MaxHistoryEsc)
     /\ \E u \in UserIds, t \in 1..MaxTicketsEsc, a \in AgentInputs :
          assign_ticket(u, t, a)
  \/ \E u \in UserIds, target \in UserInputs : delete_user(u, target)
  \/ check_sla_breaches /\ BagCardinality(queue') <= MaxQueueEsc
  \/ /\ HistRoom(MaxHistoryEsc)
     /\ \E job \in BagToSet(queue) :
          escalate_ticket(job)
  \/ \E job \in BagToSet(queue) : send_sla_warning_email(job)
  \/ \E d \in TickSteps : now + d <= MaxTicksEsc * d /\ Tick(d)

SpecEsc == Init /\ [][NextEsc]_vars

(***************************************************************************)
(* Blog posts.  A title is a sequence of pieces: words, blanks, marks and  *)
(* digits; a slug is a sequence of lower-case words, digits and hyphens.   *)
(***************************************************************************)
Lower == [Title |-> "title", Slug |-> "slug"]
Alnum == {"title", "slug", "1", "2"}

\* characters in each piece
PieceLen == [Title |-> 5, title |-> 5, Slug |-> 4, slug |-> 4]
RECURSIVE StrLen(_)
StrLen(title) ==
  IF title = <<>> THEN 0
  ELSE (IF Head(title) \in DOMAIN PieceLen THEN PieceLen[Head(title)] ELSE 1)
       + StrLen(Tail(title))

\* validate.Length(min=5, max=200)
min_title == 5
valid_title(title) == StrLen(title) >= min_title

\* python-slugify: lower case, every run of other characters becomes one
\* hyphen, hyphens at the ends are stripped
RECURSIVE Hyphenate(_, _)
Hyphenate(title, out) ==
  IF title = <<>> THEN out
  ELSE LET c == Head(title)
           d == IF c \in DOMAIN Lower THEN Lower[c]
                ELSE IF c \in Alnum THEN c ELSE "-"
       IN  IF d = "-" /\ (out = <<>> \/ out[Len(out)] = "-")
           THEN Hyphenate(Tail(title), out)
           ELSE Hyphenate(Tail(title), Append(out, d))

slugify(title) ==
  LET s == Hyphenate(title, <<>>)
  IN  IF s # <<>> /\ s[Len(s)] = "-" THEN SubSeq(s, 1, Len(s) - 1) ELSE s

Slugs(rows) == {rows[p].slug : p \in DOMAIN rows}

\* f'{base_slug}-{counter}'
Suffixed(base_slug, counter) ==
  base_slug \o <<"-">>
    \o [i \in 1..Len(Digits(counter)) |-> ToString(Digits(counter)[i])]

RECURSIVE NextFree(_, _, _)
NextFree(rows, base_slug, counter) ==
  IF Suffixed(base_slug, counter) \in Slugs(rows)
  THEN NextFree(rows, base_slug, counter + 1)
  ELSE Suffixed(base_slug, counter)

\* the title's slug as it is, taken or not
generate_slug_plain(rows, title) == slugify(title)

\* BlogPost.generate_slug
generate_slug(rows, title) ==
  IF slugify(title) \in Slugs(rows)
  THEN NextFree(rows, slugify(title), 1)
  ELSE slugify(title)

\* the cache: key |-> value and the time it stops being served.  A key is
\* the pair of its prefix and the text formatted after it.
post_ttl == 5
list_ttl == 1

cache_hit(key) == key \in DOMAIN cache /\ now < cache[key].expires
cache_set(c, key, value, ttl) ==
  Put(c, key, [value |-> value, expires |-> now + ttl])
cache_delete(c, key) == Drop(c, key)

\* a field the request body does not carry
NoTitle == <<NoneStr>>

\* BlogPost.publish
publish(row, t_now) == [row EXCEPT !.status = "published", !.published_at = t_now]

\* POST /posts (jwt_required); blog_posts.slug is unique
create_post_code(u, title) ==
  IF ~valid_title(title) THEN 400
  ELSE IF generate_slug(posts, title) \in Slugs(posts) THEN 500
  ELSE 201

NewPost(u, title, status) ==
  LET row == [title |-> title, slug |-> generate_slug(posts, title),
              author_id |-> u, status |-> status, published_at |-> None,
              view_count |-> 0]
  IN  IF status = "published" THEN publish(row, now) ELSE row

create_post_posts(u, title, status) ==
  IF create_post_code(u, title) # 201 THEN posts
  ELSE Put(posts, next_post_id, NewPost(u, title, status))

create_post(u, title, status) ==
  LET ok == create_post_code(u, title) = 201
  IN  /\ posts' = create_post_posts(u, title, status)
      /\ next_post_id' = IF ok THEN next_post_id + 1 ELSE next_post_id
      /\ served' = IF ok THEN Put(served, next_post_id, 0) ELSE served
      /\ cache' = IF ok THEN cache_delete(cache, <<"posts:list:", "">>)
                  ELSE cache
      /\ UNCHANGED <<users, now, inactive, tickets, history, comments, assignments,
                     next_id, issued, escalated, queue, pending>>

\* PUT /posts/<id>.  With a title the slug is generated again, the post's
\* own row being among the rows looked up; with a status the post is
\* published when it was not published before.
update_post_code(u, p, title) ==
  IF p \notin DOMAIN posts THEN 404
  ELSE IF posts[p].author_id # u /\ ~is_admin(u) THEN 403
  ELSE IF title # NoTitle /\ ~valid_title(title) THEN 400
  ELSE IF title # NoTitle /\ generate_slug(posts, title) \in Slugs(posts)
       THEN 500
  ELSE 200

update_post_row(row, title, status) ==
  LET titled == IF title = NoTitle THEN row
                ELSE [row EXCEPT !.title = title,
                                 !.slug = generate_slug(posts, title)]
  IN  IF status = NoneStr THEN titled
      ELSE IF status = "published" /\ row.status # "published"
           THEN publish(titled, now)
      ELSE [titled EXCEPT !.status = status]

update_post_posts(u, p, title, status) ==
  IF update_post_code(u, p, title) # 200 THEN posts
  ELSE [posts EXCEPT ![p] = update_post_row(@, title, status)]

update_post(u, p, title, status) ==
  /\ posts' = update_post_posts(u, p, title, status)
  /\ cache' = IF update_post_code(u, p, title) # 200 THEN cache
              ELSE cache_delete(cache_delete(cache, <<"post:", p>>),
                                <<"post:slug:", posts'[p].slug>>)
  /\ UNCHANGED <<users, next_post_id, served, now, inactive, tickets, history,
                 comments, assignments, next_id, issued, escalated, queue,
                 pending>>

\* DELETE /posts/<id>
delete_post_code(u, p) ==
  IF p \notin DOMAIN posts THEN 404
  ELSE IF posts[p].author_id # u /\ ~is_admin(u) THEN 403
  ELSE 204

delete_post(u, p) ==
  LET ok == delete_post_code(u, p) = 204
  IN  /\ posts' = IF ok THEN Drop(posts, p) ELSE posts
      /\ served' = IF ok THEN Drop(served, p) ELSE served
      /\ cache' = IF ok
                  THEN cache_delete(cache_delete(cache, <<"post:", p>>),
                                    <<"post:slug:", posts[p].slug>>)
                  ELSE cache
      /\ UNCHANGED <<users, next_post_id, now, inactive, tickets, history, comments,
                     assignments, next_id, issued, escalated, queue,
                     pending>>

\* GET /posts/<id> and GET /posts/<slug> (public).  served counts the 200
\* responses given for each stored post.
Serve(p) == IF p \in DOMAIN served THEN [served EXCEPT ![p] = @ + 1]
            ELSE served

\* the read of a stored, published post from the store
ReadPost(p, key) ==
  /\ posts' = [posts EXCEPT ![p].view_count = @ + 1]
  /\ cache' = cache_set(cache, key, [id |-> p, row |-> posts'[p]], post_ttl)
  /\ served' = Serve(p)

get_post_code(p) ==
  IF cache_hit(<<"post:", p>>) THEN 200
  ELSE IF p \notin DOMAIN posts THEN 404
  ELSE IF posts[p].status # "published" THEN 404
  ELSE 200

get_post(p) ==
  /\ IF cache_hit(<<"post:", p>>)
     THEN /\ served' = Serve(cache[<<"post:", p>>].value.id)
          /\ UNCHANGED <<posts, cache>>
     ELSE IF get_post_code(p) = 200 THEN ReadPost(p, <<"post:", p>>)
     ELSE UNCHANGED <<posts, cache, served>>
  /\ UNCHANGED <<users, next_post_id, now, inactive, tickets, history, comments,
                 assignments, next_id, issued, escalated, queue, pending>>

PublishedWithSlug(slug) ==
  {p \in DOMAIN posts : posts[p].slug = slug /\ posts[p].status = "published"}

get_post_by_slug_code(slug) ==
  IF cache_hit(<<"post:slug:", slug>>) THEN 200
  ELSE IF PublishedWithSlug(slug) = {} THEN 404
  ELSE 200

get_post_by_slug(slug) ==
  /\ IF cache_hit(<<"post:slug:", slug>>)
     THEN /\ served' = Serve(cache[<<"post:slug:", slug>>].value.id)
          /\ UNCHANGED <<posts, cache>>
     ELSE IF get_post_by_slug_code(slug) = 200
          THEN \E p \in PublishedWithSlug(slug) :
                  ReadPost(p, <<"post:slug:", slug>>)
     ELSE UNCHANGED <<posts, cache, served>>
  /\ UNCHANGED <<users, next_post_id, now, inactive, tickets, history, comments,
                 assignments, next_id, issued, escalated, queue, pending>>

\* GET /posts (public): the ids of the published posts (one page holds them)
list_posts_query == {p \in DOMAIN posts : posts[p].status = "published"}

list_posts_result(query_string) ==
  IF cache_hit(<<"posts:list:", query_string>>)
  THEN cache[<<"posts:list:", query_string>>].value
  ELSE list_posts_query

list_posts(query_string) ==
  /\ cache' = IF cache_hit(<<"posts:list:", query_string>>) THEN cache
              ELSE cache_set(cache, <<"posts:list:", query_string>>,
                             list_posts_query, list_ttl)
  /\ UNCHANGED <<users, posts, next_post_id, served, now, inactive, tickets,
                 history, comments, assignments, next_id, issued, escalated,
                 queue, pending>>

BlogTitles == {<<"Title", " ", "Slug">>, <<"title", " ", "slug", "!">>,
               <<"Title", " ", "Slug", " ", "1">>, <<"Slug">>}
BlogAuthors == {1, 4}
BlogEditors == {1, 2, 4}
BlogStatus == {"draft"}
BlogStatusInputs == {NoneStr}

NextBlog ==
  \/ \E u \in BlogAuthors, title \in BlogTitles, status \in BlogStatus :
       next_post_id <= MaxPosts /\ create_post(u, title, status)
  \/ \E u \in BlogEditors, p \in 1..MaxPosts, title \in BlogTitles,
        status \in BlogStatusInputs :
       update_post(u, p, title, status)
  \/ \E u \in BlogEditors, p \in 1..MaxPosts : delete_post(u, p)

SpecBlog == Init /\ [][NextBlog]_vars

(***************************************************************************)
(* One post through drafting, publishing, archiving and retitling, read by *)
(* the public by id, by slug and in the list, the clock moving in minutes. *)
(***************************************************************************)
PubTitles == {<<"Title", " ", "Slug">>}
PubTitleInputs == PubTitles \cup {NoTitle}
PubStatus == {"draft", "published"}
PubStatusInputs == {NoneStr, "draft", "published", "archived"}
PubSlugs == {slugify(title) : title \in PubTitles}
              \cup {Suffixed(slugify(title), 1) : title \in PubTitles}
ListQueries == {"", "page=1"}
TickStepsPub == {1}

ReadRoom == \A p \in DOMAIN served : served[p] < MaxReadsPub

NextPub ==
  \/ \E u \in FlowCreators, title \in PubTitles, status \in PubStatus :
       next_post_id <= MaxPostsPub /\ create_post(u, title, status)
  \/ \E u \in FlowCreators, p \in 1..MaxPostsPub, title \in PubTitleInputs,
        status \in PubStatusInputs :
       update_post(u, p, title, status)
  \/ \E u \in FlowCreators, p \in 1..MaxPostsPub : delete_post(u, p)
  \/ ReadRoom /\ \E p \in 1..MaxPostsPub : get_post(p)
  \/ ReadRoom /\ \E slug \in PubSlugs : get_post_by_slug(slug)
  \/ \E query_string \in ListQueries : list_posts(query_string)
  \/ \E d \in TickStepsPub : now + d <= MaxTicksPub * d /\ Tick(d)

SpecPub == Init /\ [][NextPub]_vars

(***************************************************************************)
(* Accounts: registration, updates of email and username, soft deletion.   *)
(***************************************************************************)
EmailInputs == {"a@x", "b@x", "e@x"}
UsernameInputs == {"ann", "eve"}
AccountEditors == {1, 4}
AccountTargets == {1, 2, 5}

NextUsers ==
  \/ \E email \in EmailInputs, username \in UsernameInputs :
       Cardinality(DOMAIN users) < MaxUsers /\ register(email, username)
  \/ \E u \in AccountEditors, target \in AccountTargets,
        email \in EmailInputs \cup {NoneStr},
        username \in UsernameInputs \cup {NoneStr} :
       update_user(u, target, email, username)
  \/ \E u \in AccountEditors, target \in AccountTargets :
       delete_user(u, target)

SpecUsers == Init /\ [][NextUsers]_vars

(***************************************************************************)
(* Listings: tickets of two customers, assigned to the agent, to the admin *)
(* or to nobody.                                                           *)
(***************************************************************************)
ListAssignees == {3, 4, 1}

NextList ==
  \/ /\ next_id <= MaxTicketsList
     /\ HistRoom(MaxHistoryList)
     /\ \E u \in Customers, p \in FlowPriorities :
          create_ticket(u, p)
  \/ /\ HistRoom(MaxHistoryList)
     /\ \E u \in LifeAdmins, t \in 1..MaxTicketsList, a \in ListAssignees :
          assign_ticket(u, t, a)
  \/ \E u \in LifeAdmins, t \in 1..MaxTicketsList : delete_ticket(u, t)

SpecList == Init /\ [][NextList]_vars

(***************************************************************************)
(* Ticket numbers: creation and deletion over several days.                *)
(***************************************************************************)
NextNum ==
  \/ \E u \in Customers, p \in TicketPriority :
       next_id <= MaxTicketsNum /\ create_ticket(u, p)
  \/ \E u \in UserIds, t \in 1..MaxTicketsNum : delete_ticket(u, t)
  \/ \E d \in TickSteps : now + d <= MaxTicksNum * d /\ Tick(d)

SpecNum == Init /\ [][NextNum]_vars

(***************************************************************************)
(* Two workers serving ticket creations and comments at the same time.     *)
(***************************************************************************)
NextConc ==
  \/ \E w \in Workers, u \in FlowCreators, p \in FlowPriorities :
       next_id <= MaxTicketsConc /\ create_ticket_begin(w, u, p)
  \/ \E w \in Workers : create_ticket_commit(w)
  \/ /\ HistRoom(MaxHistoryConc)
     /\ \E w \in Workers, u \in UserIds, t \in 1..MaxTicketsConc,
        i \in BOOLEAN :
          add_ticket_comment_flush(w, u, t, i)
  \/ \E w \in Workers : add_ticket_comment_commit(w)
  \/ \E d \in TickStepsConc : now + d <= MaxTicksConc * d /\ Tick(d)

SpecConc == Init /\ [][NextConc]_vars

(***************************************************************************)
(* A ticket whose deadlines pass before anybody attends to it, with the    *)
(* periodic sweep: the beat scheduler starts check_sla_breaches again and  *)
(* again, so the sweep is taken whenever it has something to do.           *)
(***************************************************************************)
NextLate ==
  \/ /\ next_id <= MaxTicketsLate
     /\ HistRoom(MaxHistoryLate)
     /\ \E u \in FlowCreators, p \in SlaPriorities :
          create_ticket(u, p)
  \/ /\ HistRoom(MaxHistoryLate)
     /\ \E u \in LifeRequesters, t \in 1..MaxTicketsLate, s \in StatusInputs :
          update_ticket_status(u, t, s)
  \/ /\ HistRoom(MaxHistoryLate)
     /\ \E u \in LifeRequesters, t \in 1..MaxTicketsLate, i \in BOOLEAN :
          add_ticket_comment(u, t, i)
  \/ check_sla_breaches /\ BagCardinality(queue') <= MaxQueueLate
  \/ /\ HistRoom(MaxHistoryLate + 1)
     /\ \E job \in BagToSet(queue) :
          escalate_ticket(job)
  \/ \E d \in TickSteps : now + d <= MaxTicksLate * d /\ Tick(d)

SpecLate ==
  /\ Init
  /\ [][NextLate]_vars
  /\ WF_vars(check_sla_breaches /\ BagCardinality(queue') <= MaxQueueLate)

(***************************************************************************)
(* Two Celery workers running sweeps and escalations of one ticket at the  *)
(* same time.                                                              *)
(***************************************************************************)
RacePriorities == {"high"}

NextRace ==
  \/ \E u \in FlowCreators, p \in RacePriorities :
       next_id <= MaxTicketsRace /\ create_ticket(u, p)
  \/ \E w \in Workers :
       /\ check_sla_breaches_begin(w)
       /\ BagCardinality(queue') <= MaxQueueRace
  \/ \E w \in Workers : check_sla_breaches_commit(w)
  \/ \E w \in Workers, job \in BagToSet(queue) :
       escalate_ticket_begin(w, job)
  \/ \E w \in Workers :
       /\ escalate_ticket_commit(w)
       /\ BagCardinality(queue') <= MaxQueueRace
  \/ \E job \in BagToSet(queue) : send_sla_warning_email(job)
  \/ \E d \in TickSteps : now + d <= MaxTicksRace * d /\ Tick(d)

SpecRace == Init /\ [][NextRace]_vars

(***************************************************************************)
(* Two workers serving status updates of one ticket at the same time.      *)
(***************************************************************************)
NextTurn ==
  \/ \E u \in FlowCreators, p \in RacePriorities :
       next_id <= MaxTicketsTurn /\ create_ticket(u, p)
  \/ /\ HistoryRows + Cardinality({w \in Workers :
                                     pending[w].phase = "open"})
          < MaxHistoryTurn
     /\ \E w \in Workers, u \in LifeRequesters, t \in 1..MaxTicketsTurn,
           s \in StatusInputs :
          update_ticket_status_begin(w, u, t, s)
  \/ \E w \in Workers : update_ticket_status_commit(w)
  \/ \E d \in TickStepsConc : now + d <= MaxTicksTurn * d /\ Tick(d)

SpecTurn == Init /\ [][NextTurn]_vars

Spec == Init /\ [][Next]_vars

(***************************************************************************)
(* Properties.                                                             *)
(***************************************************************************)
Staff == {u \in UserIds : is_agent(u) \/ is_admin(u)}

\* the transition table as the specification lists it
TablePairs == {<<"open", "assigned">>, <<"open", "closed">>,
               <<"assigned", "in_progress">>, <<"assigned", "closed">>,
               <<"in_progress", "waiting">>, <<"in_progress", "resolved">>,
               <<"in_progress", "closed">>, <<"waiting", "in_progress">>,
               <<"resolved", "closed">>, <<"resolved", "reopened">>,
               <<"closed", "reopened">>, <<"reopened", "in_progress">>}

\* fewer than eight whole days have passed since the ticket was closed
InReopenWindow(t) == now < tickets[t].closed_at + (ReopenDays + 1) * Day

RejectedPair(u, t, s) ==
  /\ ~can_transition_to(tickets[t], s, now)
  /\ update_ticket_status_code(u, t, s) = 400

\* a step that is the request (u, t, s): answered 200, it leaves the
\* requested status; answered otherwise, it stores nothing
StatusStep(u, t, s) ==
  IF update_ticket_status_code(u, t, s) = 200
  THEN update_ticket_status(u, t, s) => tickets'[t].status = s
  ELSE ~update_ticket_status(u, t, s)

StatusSteps(callers) ==
  \/ UNCHANGED vars
  \/ now' # now
  \/ \A u \in callers, t \in DOMAIN tickets, s \in StatusInputs :
        StatusStep(u, t, s)

StatusChanged(t, old, new) ==
  \E i \in 1..Len(history[t]) :
     /\ history[t][i].action = "status_changed"
     /\ history[t][i].old_value = old /\ history[t][i].new_value = new

C2_AsStated ==
  \A u \in Staff, t \in DOMAIN tickets :
     tickets[t].status = "closed"
       => (update_ticket_status_code(u, t, "reopened") = 200
             <=> now - tickets[t].closed_at <= ReopenDays * Day)

CustomerMayReopen(u, t, s) ==
  /\ s = "reopened"
  /\ tickets[t].status = "resolved"
  /\ tickets[t].customer_id = u

\* C3: a customer's status request is answered 200 exactly when it asks for
\* reopened on a resolved ticket the customer owns, and 403 otherwise; a
\* request answered 403 stores nothing, an accepted one reopens the ticket.
C3_CustomerReopenOnly ==
  /\ [](\A u \in Customers, t \in DOMAIN tickets, s \in StatusInputs :
          update_ticket_status_code(u, t, s)
            = IF CustomerMayReopen(u, t, s) THEN 200 ELSE 403)
  /\ [][StatusSteps(Customers)]_vars

\* the owner has reopened the resolved ticket
C3_Witness ==
  \E t \in DOMAIN tickets :
     LET e == history[t][Len(history[t])]
     IN  /\ tickets[t].status = "reopened"
         /\ e.action = "status_changed" /\ e.old_value = "resolved"
         /\ e.user_id = tickets[t].customer_id /\ is_customer(e.user_id)

\* C4: a ticket whose sla_breached flag is set keeps it set in every step
\* that keeps the ticket.
C4_BreachedIsSticky ==
  [][\A t \in DOMAIN tickets :
       (t \in DOMAIN tickets' /\ tickets[t].sla_breached)
         => tickets'[t].sla_breached]_vars

\* a breached ticket has been closed and reopened
C4_Witness ==
  \E t \in DOMAIN tickets :
     /\ tickets[t].sla_breached
     /\ tickets[t].status = "reopened"
     /\ StatusChanged(t, "closed", "reopened")

\* the offsets of the specification, in hours
SlaOffsets == [urgent |-> [response |-> 2, resolution |-> 24],
               high |-> [response |-> 4, resolution |-> 48],
               medium |-> [response |-> 8, resolution |-> 120],
               low |-> [response |-> 24, resolution |-> 240]]

\* C5 as stated: the deadlines of every stored ticket are its creation time
\* plus the offsets of its current priority.
C5_AsStated ==
  \A t \in DOMAIN tickets :
     /\ tickets[t].sla_response_due
          = tickets[t].created_at
              + SlaOffsets[tickets[t].priority].response * Hour
     /\ tickets[t].sla_resolution_due
          = tickets[t].created_at
              + SlaOffsets[tickets[t].priority].resolution * Hour

\* C6 as stated: of any two tickets created on the same day the later one
\* has the same date part and the strictly greater sequence, and every
\* number issued has the date of its creation and four sequence digits.
C6_AsStated ==
  /\ \A i \in 1..Len(issued) :
        /\ issued[i].ticket_number.date = Today(issued[i].created_at)
        /\ Len(issued[i].ticket_number.seq) = 4
  /\ \A i, j \in 1..Len(issued) :
        (i < j /\ Today(issued[i].created_at) = Today(issued[j].created_at))
          => /\ issued[i].ticket_number # issued[j].ticket_number
             /\ ParseInt(issued[i].ticket_number.seq)
                  < ParseInt(issued[j].ticket_number.seq)

\* C7 as stated: every creation request that a worker has answered was
\* answered 201, and the stored tickets have pairwise different numbers.
C7_AsStated ==
  /\ \A w \in Workers :
        (pending[w].op = "create" /\ pending[w].phase = "done")
          => pending[w].code = 201
  /\ \A i, j \in DOMAIN tickets :
        i # j => tickets[i].ticket_number # tickets[j].ticket_number

StoredStateChanged(t) ==
  IF t \in DOMAIN tickets
  THEN \/ tickets'[t] # tickets[t]
       \/ comments'[t] # comments[t]
       \/ assignments'[t] # assignments[t]
  ELSE TRUE

\* C8 as stated: a step that creates a ticket or changes what is stored of
\* it appends exactly one entry to the history of that ticket.
C8_AsStated ==
  [][\A t \in DOMAIN tickets' :
       StoredStateChanged(t)
         => Len(history'[t])
              = (IF t \in DOMAIN history THEN Len(history[t]) ELSE 0) + 1]_vars

\* the five operations of the lifecycle, in the order they were committed
Lifecycle(t) ==
  LET h == history[t]
  IN  /\ Len(h) = 5
      /\ h[1].action = "created" /\ is_customer(h[1].user_id)
      /\ h[2].action = "assigned" /\ is_admin(h[2].user_id)
      /\ h[3].action = "status_changed" /\ h[3].new_value = "in_progress"
      /\ is_agent(h[3].user_id)
      /\ h[4].action = "status_changed" /\ h[4].new_value = "resolved"
      /\ is_agent(h[4].user_id)
      /\ h[5].action = "status_changed" /\ h[5].new_value = "reopened"
      /\ h[5].user_id = h[1].user_id

DistinctTimes(t) ==
  \A i, j \in 1..Len(history[t]) :
     i < j => history[t][i].created_at < history[t][j].created_at

Labels(l) ==
  [i \in 1..Len(l) |->
     IF l[i].action = "status_changed" THEN l[i].new_value ELSE l[i].action]

\* C9 as stated: after the lifecycle, run at five different times, the
\* history endpoint lists the five entries oldest first.
C9_AsStated ==
  \A t \in DOMAIN tickets :
     (Lifecycle(t) /\ DistinctTimes(t))
       => \A l \in get_ticket_history(t) :
             Labels(l) = <<"created", "assigned", "in_progress", "resolved",
                           "reopened">>

\* C9: after the lifecycle the history endpoint answers with the five
\* entries, none of them listed before a later one; run at five different
\* times the list is reopened, resolved, in_progress, assigned, created.
C9_HistoryNewestFirst ==
  \A t \in DOMAIN tickets :
     Lifecycle(t)
       => /\ get_ticket_history(t) # {}
          /\ \A l \in get_ticket_history(t) :
                /\ Len(l) = 5
                /\ \A i, j \in 1..5 :
                      i < j => l[i].created_at >= l[j].created_at
                /\ DistinctTimes(t)
                     => Labels(l) = <<"reopened", "resolved", "in_progress",
                                      "assigned", "created">>

\* the lifecycle has run, each operation at a later time than the last
C9_Witness ==
  \E t \in DOMAIN tickets :
     /\ Lifecycle(t)
     /\ DistinctTimes(t)
     /\ tickets[t].status = "reopened"

\* C10 as stated: the entries of a ticket, taken in the order their
\* operations were committed, carry non-decreasing created_at, the column
\* that orders them.
C10_AsStated ==
  \A t \in DOMAIN history :
     \A i, j \in 1..Len(history[t]) :
        i < j => history[t][i].created_at <= history[t][j].created_at

\* an active ticket with a deadline that has passed without its event
Overdue(t) ==
  /\ tickets[t].status \in active_statuses
  /\ \/ /\ tickets[t].first_response_at = None
        /\ tickets[t].sla_response_due < now
     \/ tickets[t].sla_resolution_due < now

\* C11: a run of the sweep leaves every overdue ticket with sla_breached set
\* and one escalation job enqueued for it in all; at all times a ticket has
\* had one escalation job enqueued if its flag is set and none otherwise,
\* however often the sweep has run.
C11_BreachMarkedOnce ==
  \A t \in DOMAIN tickets :
     /\ escalated[t] = IF tickets[t].sla_breached THEN 1 ELSE 0
     /\ Overdue(t)
          => /\ check_sla_breaches_marked[t].sla_breached
             /\ escalated[t] + CopiesIn(EscalateJob(t),
                                        check_sla_breaches_jobs) = 1

\* the sweep has marked an overdue ticket and its escalation job has run
C11_Witness ==
  \E t \in DOMAIN tickets :
     /\ Overdue(t)
     /\ tickets[t].sla_breached
     /\ escalated[t] = 1
     /\ ~BagIn(EscalateJob(t), queue)
     /\ \E i \in 1..Len(history[t]) :
           history[t][i].details = <<"Auto-escalated due to SLA breach">>

\* an active ticket, assigned, with the resolution deadline 10 minutes ahead
DueInTenMinutes(t) ==
  /\ tickets[t].status \in active_statuses
  /\ tickets[t].assigned_to_id # None
  /\ tickets[t].sla_resolution_due = now + 10

RECURSIVE Copies(_, _)
Copies(S, q) == IF S = {} THEN 0
                ELSE LET j == CHOOSE x \in S : TRUE
                     IN  CopiesIn(j, q) + Copies(S \ {j}, q)

\* the warning email jobs for ticket t in the bag q
WarningsFor(t, q) ==
  Copies({j \in BagToSet(q) : /\ j.task = "send_sla_warning_email"
                              /\ j.ticket_id = t
                              /\ j.kind \in {"response", "resolution"}}, q)

OneWarning(t) ==
  /\ WarningsFor(t, check_sla_breaches_jobs) = 1
  /\ CopiesIn(EmailJob(t, "resolution", tickets[t].assigned_to_id),
              check_sla_breaches_jobs) = 1

\* C12 as stated: a run of the sweep on an assigned active ticket with the
\* resolution deadline 10 minutes ahead enqueues exactly one warning email
\* job, addressed to the assigned agent, and leaves sla_breached as it was.
C12_AsStated ==
  \A t \in DOMAIN tickets :
     DueInTenMinutes(t)
       => /\ OneWarning(t)
          /\ check_sla_breaches_marked[t].sla_breached
               = tickets[t].sla_breached

\* C12: such a run enqueues exactly one warning email job, addressed to the
\* assigned agent, and leaves sla_breached as it was when the ticket has had
\* its first response.
C12_WarningBeforeBreach ==
  \A t \in DOMAIN tickets :
     DueInTenMinutes(t)
       => /\ OneWarning(t)
          /\ tickets[t].first_response_at # None
               => check_sla_breaches_marked[t].sla_breached
                    = tickets[t].sla_breached

\* the sweep has warned the agent of an answered ticket 10 minutes ahead of
\* the resolution deadline
C12_Witness ==
  \E t \in DOMAIN tickets :
     /\ DueInTenMinutes(t)
     /\ tickets[t].first_response_at # None
     /\ ~tickets[t].sla_breached
     /\ WarningsFor(t, queue) = 1
     /\ BagIn(EmailJob(t, "resolution", tickets[t].assigned_to_id), queue)

AutoEscalated(t) ==
  create_history_entry("priority_changed", escalation_admin,
                       tickets[t].priority, "urgent",
                       <<"Auto-escalated due to SLA breach">>, now)

\* C13: the escalation job run for a stored ticket ends, when no admin is
\* active, with a warning and commits the tickets and the history as they
\* were and enqueues nothing; otherwise it ends with success, the ticket is
\* urgent, the history has grown by the auto-escalated entry exactly when the
\* ticket was not urgent, and one escalation email to the admin is enqueued.
C13_EscalationOutcome ==
  \A t \in DOMAIN tickets :
     LET job == EscalateJob(t)
     IN  IF active_admins = {}
         THEN /\ escalate_ticket_status(job) = "warning"
              /\ escalate_ticket_tickets(job) = tickets
              /\ escalate_ticket_history(job) = history
              /\ escalate_ticket_jobs(job) = EmptyBag
         ELSE /\ escalate_ticket_status(job) = "success"
              /\ escalate_ticket_tickets(job)[t].priority = "urgent"
              /\ escalate_ticket_history(job)[t]
                   = IF tickets[t].priority # "urgent"
                     THEN Append(history[t], AutoEscalated(t))
                     ELSE history[t]
              /\ escalate_ticket_jobs(job)
                   = SetToBag({EmailJob(t, "escalation", escalation_admin)})

\* an escalation job has run while no admin was active: the ticket was
\* marked, its job has left the queue and the ticket is as it was
C13_Witness ==
  \E t \in DOMAIN tickets :
     /\ active_admins = {}
     /\ escalated[t] = 1
     /\ ~BagIn(EscalateJob(t), queue)
     /\ tickets[t].priority = "high"
     /\ Len(history[t]) = 1

\* C14: a step that moves a ticket to resolved stamps resolved_at with the
\* time of the step, one that moves it to closed stamps closed_at, one that
\* moves it to reopened empties both; at all times a closed ticket has
\* closed_at set, a resolved one resolved_at, and a reopened one neither.
C14_StatusTimestamps ==
  /\ [](\A t \in DOMAIN tickets :
          /\ tickets[t].status = "closed" => tickets[t].closed_at # None
          /\ tickets[t].status = "resolved" => tickets[t].resolved_at # None
          /\ tickets[t].status = "reopened"
               => /\ tickets[t].resolved_at = None
                  /\ tickets[t].closed_at = None)
  /\ [][\A t \in DOMAIN tickets :
          (t \in DOMAIN tickets' /\ tickets'[t].status # tickets[t].status)
            => /\ tickets'[t].status = "resolved"
                    => tickets'[t].resolved_at = now
               /\ tickets'[t].status = "closed"
                    => tickets'[t].closed_at = now
               /\ tickets'[t].status = "reopened"
                    => /\ tickets'[t].resolved_at = None
                       /\ tickets'[t].closed_at = None]_vars

\* a ticket was closed and then reopened, and carries neither timestamp
C14_Witness ==
  \E t \in DOMAIN tickets :
     /\ StatusChanged(t, "open", "closed")
     /\ StatusChanged(t, "closed", "reopened")
     /\ tickets[t].status = "reopened"
     /\ tickets[t].resolved_at = None
     /\ tickets[t].closed_at = None

\* C15: at all times a ticket's assigned_to_id is empty or names an agent or
\* an admin; a request to assign a ticket to a customer or to a disabled
\* account is answered with an error, and the rows the handler leaves behind
\* (tickets, assignment log, history) are the ones it found.
NotAssignable(agent_id) ==
  agent_id \in UserIds /\ (is_customer(agent_id) \/ ~is_active(agent_id))

C15_AssigneeIsStaff ==
  /\ \A t \in DOMAIN tickets :
       \/ tickets[t].assigned_to_id = None
       \/ tickets[t].assigned_to_id \in Staff
  /\ \A u \in UserIds, t \in DOMAIN tickets, agent_id \in UserIds :
       NotAssignable(agent_id)
         => /\ assign_ticket_code(u, t, agent_id) \in {400, 403}
            /\ assign_ticket_tickets(u, t, agent_id) = tickets
            /\ assign_ticket_assignments(u, t, agent_id) = assignments
            /\ assign_ticket_history(u, t, agent_id) = history

\* a ticket assigned to the admin while the agent's account is disabled:
\* naming the agent or a customer is refused
C15_Witness ==
  \E t \in DOMAIN tickets :
     /\ tickets[t].assigned_to_id = 4
     /\ Len(assignments[t]) = 1
     /\ 3 \in inactive
     /\ assign_ticket_code(4, t, 3) = 400
     /\ assign_ticket_code(4, t, 1) = 400

\* C16: the ticket listing a caller gets holds exactly the tickets that
\* caller may access: every ticket for an admin, the tickets assigned to them
\* and the unassigned ones for an agent, their own tickets for a customer.
Visible(u) ==
  {t \in DOMAIN tickets :
     \/ is_admin(u)
     \/ is_agent(u) /\ tickets[t].assigned_to_id \in {u, None}
     \/ is_customer(u) /\ tickets[t].customer_id = u}

C16_ListingIsAccessible ==
  \A u \in UserIds :
     /\ list_tickets(u) = {Visible(u)}
     /\ Visible(u) = {t \in DOMAIN tickets : can_access_ticket(u, tickets[t])}

\* three tickets: one of customer 1 with the agent, one of customer 2 with
\* the admin, one unassigned
C16_Witness ==
  \E a, b, c \in DOMAIN tickets :
     /\ tickets[a].customer_id = 1 /\ tickets[a].assigned_to_id = 3
     /\ tickets[b].customer_id = 2 /\ tickets[b].assigned_to_id = 4
     /\ tickets[c].assigned_to_id = None
     /\ list_tickets(3) = {{a, c}}
     /\ list_tickets(4) = {{a, b, c}}
     /\ b \notin list_tickets_query(1)

\* C17: a customer who lists the comments of their ticket gets exactly the
\* public comments, none flagged internal and none missing; an agent or an
\* admin who lists them gets all the comments of the ticket.
Occurrences(l, c) == Cardinality({i \in DOMAIN l : l[i] = c})

C17_CommentListing ==
  \A u \in UserIds, t \in DOMAIN tickets :
     get_ticket_comments_code(u, t) = 200
       => /\ get_ticket_comments(u, t) # {}
          /\ \A l \in get_ticket_comments(u, t) :
               LET all == comments[t]
                   shown == IF is_customer(u)
                            THEN {i \in DOMAIN all : ~all[i].is_internal}
                            ELSE DOMAIN all
               IN  /\ Len(l) = Cardinality(shown)
                   /\ \A i \in DOMAIN l :
                        is_customer(u) => ~l[i].is_internal
                   /\ \A i \in shown :
                        Occurrences(l, all[i])
                          = Cardinality({j \in shown : all[j] = all[i]})

\* a ticket with an internal note of the agent and a public comment of its
\* customer: the customer is shown one comment, the agent and the admin two
C17_Witness ==
  \E t \in DOMAIN tickets :
     /\ \E i \in DOMAIN comments[t] : comments[t][i].is_internal
     /\ \E i \in DOMAIN comments[t] : ~comments[t][i].is_internal
     /\ Len(comments[t]) = 2
     /\ get_ticket_comments_code(1, t) = 200
     /\ \A l \in get_ticket_comments(1, t) : Len(l) = 1
     /\ \A l \in get_ticket_comments(3, t) : Len(l) = 2
     /\ \A l \in get_ticket_comments(4, t) : Len(l) = 2

\* C18: a ticket without a comment of an agent or admin has no
\* first_response_at; otherwise first_response_at is the time of the first
\* such comment, whatever comments and other operations came after it.
StaffComments(t) ==
  {i \in DOMAIN comments[t] : comments[t][i].user_id \in Staff}

FirstStaffComment(t) ==
  comments[t][CHOOSE i \in StaffComments(t) :
                 \A j \in StaffComments(t) : i <= j]

C18_FirstResponseOnce ==
  \A t \in DOMAIN tickets :
     IF StaffComments(t) = {}
     THEN tickets[t].first_response_at = None
     ELSE tickets[t].first_response_at = FirstStaffComment(t).created_at

\* the agent commented twice, at different times: the ticket carries the
\* time of the first comment
C18_Witness ==
  \E t \in DOMAIN tickets :
     /\ Len(comments[t]) = 2
     /\ comments[t][1].user_id \in Staff
     /\ comments[t][2].user_id \in Staff
     /\ comments[t][1].created_at < comments[t][2].created_at
     /\ tickets[t].first_response_at = comments[t][1].created_at

\* C19 as stated: a step in which a request through the HTTP API creates a
\* ticket, assigns one, changes a status or adds a public comment puts one
\* more job on the broker queue.
ApiMutation(t) ==
  /\ t \in DOMAIN history'
  /\ LET old == IF t \in DOMAIN history THEN Len(history[t]) ELSE 0
     IN  /\ Len(history'[t]) = old + 1
         /\ LET e == history'[t][old + 1]
            IN  \/ e.action \in {"created", "assigned", "status_changed"}
                \/ e.action = "commented" /\ e.details = <<"Comment added">>

C19_AsStated ==
  [][\A t \in DOMAIN history' :
       ApiMutation(t)
         => BagCardinality(queue') = BagCardinality(queue) + 1]_vars

\* two posts of one title created one after the other on the stored rows
FirstSlug(title) == generate_slug(posts, title)
SecondSlug(title) ==
  generate_slug(create_post_posts(CHOOSE u \in BlogAuthors : TRUE, title,
                                  "draft"), title)

\* C20 as stated: no two posts share a slug, and two posts created with a
\* title that no stored post has get the title's slug and that slug with the
\* suffix -1.
C20_AsStated ==
  /\ \A p, q \in DOMAIN posts : p # q => posts[p].slug # posts[q].slug
  /\ \A title \in BlogTitles :
       (valid_title(title) /\ \A p \in DOMAIN posts : posts[p].title # title)
         => /\ FirstSlug(title) = slugify(title)
            /\ SecondSlug(title) = Suffixed(slugify(title), 1)

\* C20: no two posts share a slug and no creation or update is refused for
\* its slug; two posts created with one title get different slugs, and they
\* get the title's slug and that slug with the suffix -1 when neither of the
\* two is the slug of a stored post.
C20_SlugsUnique ==
  /\ \A p, q \in DOMAIN posts : p # q => posts[p].slug # posts[q].slug
  /\ \A title \in BlogTitles :
       valid_title(title)
         => /\ FirstSlug(title) \notin Slugs(posts)
            /\ SecondSlug(title) \notin Slugs(posts) \cup {FirstSlug(title)}
            /\ ({slugify(title), Suffixed(slugify(title), 1)}
                  \cap Slugs(posts) = {})
                 => /\ FirstSlug(title) = slugify(title)
                    /\ SecondSlug(title) = Suffixed(slugify(title), 1)

\* two stored posts of one title, with the slugs title-slug and title-slug-1
C20_Witness ==
  \E p, q \in DOMAIN posts :
     /\ p < q
     /\ posts[p].title = <<"Title", " ", "Slug">>
     /\ posts[q].title = posts[p].title
     /\ posts[p].slug = <<"title", "-", "slug">>
     /\ posts[q].slug = <<"title", "-", "slug", "-", "1">>

\* C21 as stated: a published post has a published_at, and no step changes
\* a published_at that is set, also when the post is archived and published
\* again.
C21_AsStated ==
  /\ [](\A p \in DOMAIN posts :
          posts[p].status = "published" => posts[p].published_at # None)
  /\ [][\A p \in DOMAIN posts :
          (p \in DOMAIN posts' /\ posts[p].published_at # None)
            => posts'[p].published_at = posts[p].published_at]_vars

\* C22 as stated: the view_count of a stored post is the number of 200
\* responses given to public reads of it, by id or by slug, reads answered
\* within the cache lifetime of an earlier read included.
C22_AsStated ==
  \A p \in DOMAIN posts : posts[p].view_count = served[p]

\* C23 as stated: an update that carries the post's current title, or no
\* title, leaves the post with the slug it had.
C23_AsStated ==
  \A u \in UserIds, p \in DOMAIN posts, status \in PubStatusInputs :
     /\ update_post_code(u, p, posts[p].title) = 200
          => update_post_posts(u, p, posts[p].title, status)[p].slug
               = posts[p].slug
     /\ update_post_code(u, p, NoTitle) = 200
          => update_post_posts(u, p, NoTitle, status)[p].slug = posts[p].slug

\* C24 as stated: right after a step that created a published post, the
\* list of posts answered for any query string holds the new post.
C24_AsStated ==
  [][(/\ next_post_id' = next_post_id + 1
      /\ posts'[next_post_id].status = "published")
       => \A query_string \in ListQueries :
             next_post_id \in list_posts_result(query_string)']_vars

\* C25 as stated: the stored users have pairwise different emails and
\* usernames, and a registration or an update of a user that would store an
\* email or a username a second time is answered with 409 and leaves the
\* stored users as they were.
C25_AsStated ==
  /\ UniqueUsers(users)
  /\ \A email \in EmailInputs, username \in UsernameInputs :
       (EmailTaken(users, email) \/ UsernameTaken(users, username))
         => /\ register_code(email, username) = 409
            /\ register_users(email, username) = users
  /\ \A u \in AccountEditors, target \in DOMAIN users,
        email \in EmailInputs \cup {NoneStr},
        username \in UsernameInputs \cup {NoneStr} :
       (/\ u = target \/ is_admin(u)
        /\ \E other \in DOMAIN users \ {target} :
              \/ users[other].email = email
              \/ users[other].username = username)
         => /\ update_user_code(u, target, email, username) = 409
            /\ update_user_users(u, target, email, username) = users

\* C26 as stated: a request of an agent to change the status or the priority
\* of a ticket the agent may not access is not accepted.
C26_AsStated ==
  \A u \in UserIds, t \in DOMAIN tickets :
     (is_agent(u) /\ ~can_access_ticket(u, tickets[t]))
       => /\ \A s \in StatusInputs : update_ticket_status_code(u, t, s) # 200
          /\ \A p \in PriorityInputs :
                update_ticket_priority_code(u, t, p) # 200

\* C27: an active ticket with a deadline that has passed without its event
\* is flagged sla_breached sooner or later, also when the event comes late,
\* between the deadline and the next run of the sweep.
C27_AsStated ==
  \A t \in 1..MaxTicketsLate :
    (t \in DOMAIN tickets /\ Overdue(t))
      ~> (t \in DOMAIN tickets /\ tickets[t].sla_breached)

\* the executions of the escalation job of ticket t that have ended
EscalationsEnded(t) ==
  escalated[t] - CopiesIn(EscalateJob(t), queue)
    - Cardinality({w \in Workers :
                     /\ pending[w].op = "escalate"
                     /\ pending[w].phase = "open"
                     /\ pending[w].ticket = t})

AutoEscalations(t) ==
  {i \in DOMAIN history[t] :
     history[t][i].details = <<"Auto-escalated due to SLA breach">>}

\* C28: once the escalation job of a ticket has been executed more than
\* once, one after another or overlapping, the ticket is urgent and its
\* history holds exactly one auto-escalation entry.
C28_AsStated ==
  \A t \in DOMAIN tickets :
     EscalationsEnded(t) > 1
       => /\ tickets[t].priority = "urgent"
          /\ Cardinality(AutoEscalations(t)) = 1

\* C29: with status updates of one ticket served by two workers at the same
\* time, every change of the stored status is a transition of the table,
\* and the stored status, resolved_at and closed_at are those of a serial
\* execution: in every serial execution a ticket that is neither resolved
\* nor closed has no resolved_at and no closed_at, and a closed ticket has
\* closed_at.
C29_AsStated ==
  /\ [][\A t \in DOMAIN tickets :
          (t \in DOMAIN tickets' /\ tickets'[t].status # tickets[t].status)
            => tickets'[t].status \in TRANSITIONS[tickets[t].status]]_vars
  /\ [](\A t \in DOMAIN tickets :
          /\ tickets[t].status \notin {"resolved", "closed"}
               => /\ tickets[t].resolved_at = None
                  /\ tickets[t].closed_at = None
          /\ tickets[t].status = "closed" => tickets[t].closed_at # None)

\* C30: a deactivated user cannot log in, and no request made in the name
\* of that user succeeds: not the admin-only operations, not the operations
\* for agents and admins, not the refresh of a token.
C30_AsStated ==
  \A u \in inactive :
     /\ login_code(u) # 200
     /\ refresh_code(u) # 200
     /\ \A t \in DOMAIN tickets :
          /\ delete_ticket_code(u, t) # 204
          /\ \A a \in AgentInputs : assign_ticket_code(u, t, a) # 200
          /\ \A p \in PriorityInputs :
                update_ticket_priority_code(u, t, p) # 200

====
